---- MODULE Spec2Model ----
(***************************************************************************)
(* Verification model of the plant/photo reconciliation back end:          *)
(*   services.py  ExcelProcessor.process_excel   (tabular extractor)       *)
(*                ImageProcessor.process_images  (image metadata scan)     *)
(*                DataMapper                     (matching and mapping)    *)
(*   models.py    Plant, ProcessingStatus        (pydantic records)        *)
(*   main.py      the session endpoints                                    *)
(* Text is modelled by TLA+ strings; a character is a string of length 1.  *)
(***************************************************************************)
EXTENDS Integers, Sequences, FiniteSets, TLC

(***************************************************************************)
(* Bounds of the model.                                                    *)
(***************************************************************************)
MaxImages == 2
MaxSheetRows == 3
MaxSheetCols == 2
MaxRows == 2
MaxUpload == 2
MaxEntries == 3

\* ------------------------------------------------------------------------
\* Python text primitives used by services.py
\* ------------------------------------------------------------------------
LowerAlpha == "abcdefghijklmnopqrstuvwxyz"
UpperAlpha == "ABCDEFGHIJKLMNOPQRSTUVWXYZ"
DigitChars == "0123456789"
Whitespace == " \t"

CharAt(s, i) == SubSeq(s, i, i)

InStr(c, alphabet) == \E i \in 1..Len(alphabet) : CharAt(alphabet, i) = c

PosIn(c, alphabet) == CHOOSE i \in 1..Len(alphabet) : CharAt(alphabet, i) = c

\* the characters of a string, as a set
CharsOf(alphabet) == {CharAt(alphabet, i) : i \in 1..Len(alphabet)}

UpperChars == CharsOf(UpperAlpha)

ToLower == [c \in UpperChars |-> CharAt(LowerAlpha, PosIn(c, UpperAlpha))]

\* str.lower(), one character
LowerChar(c) == IF c \in UpperChars THEN ToLower[c] ELSE c

RECURSIVE Lower(_)
\* str.lower()
Lower(s) == IF Len(s) = 0 THEN "" ELSE LowerChar(CharAt(s, 1)) \o Lower(SubSeq(s, 2, Len(s)))

RECURSIVE LStrip(_)
LStrip(s) ==
    IF Len(s) > 0 /\ InStr(CharAt(s, 1), Whitespace) THEN LStrip(SubSeq(s, 2, Len(s))) ELSE s

RECURSIVE RStrip(_)
RStrip(s) ==
    IF Len(s) > 0 /\ InStr(CharAt(s, Len(s)), Whitespace) THEN RStrip(SubSeq(s, 1, Len(s) - 1)) ELSE s

\* str.strip()
Strip(s) == RStrip(LStrip(s))

\* a in b  (substring test on str)
Contains(a, b) ==
    \E i \in 0..(Len(b) - Len(a)) : SubSeq(b, i + 1, i + Len(a)) = a

StartsWith(s, p) == Len(p) <= Len(s) /\ SubSeq(s, 1, Len(p)) = p

EndsWith(s, p) == Len(p) <= Len(s) /\ SubSeq(s, Len(s) - Len(p) + 1, Len(s)) = p

\* 1-based position of the last occurrence of character c in s, 0 when absent
LastIndexOf(s, c) ==
    LET hits == {i \in 1..Len(s) : CharAt(s, i) = c}
    IN  IF hits = {} THEN 0 ELSE CHOOSE i \in hits : \A j \in hits : j <= i

\* PurePath.name for a path without a trailing separator: the last component
PathName(s) == SubSeq(s, LastIndexOf(s, "/") + 1, Len(s))

\* PurePath.stem: the name without its last suffix; a leading or a trailing
\* dot starts no suffix
Stem(s) ==
    LET name == PathName(s)
        i    == LastIndexOf(name, ".")
    IN  IF 1 < i /\ i < Len(name) THEN SubSeq(name, 1, i - 1) ELSE name

KeptChars == CharsOf(LowerAlpha) \cup CharsOf(UpperAlpha) \cup CharsOf(DigitChars) \cup CharsOf("_-.")

\* the class [\w\-_.] of the cleaning pattern
IsKeptChar(c) == c \in KeptChars

RECURSIVE CleanSpecial(_)
\* re.sub(r'[^\w\-_.]', '', s)
CleanSpecial(s) ==
    IF Len(s) = 0 THEN ""
    ELSE (IF IsKeptChar(CharAt(s, 1)) THEN CharAt(s, 1) ELSE "") \o CleanSpecial(SubSeq(s, 2, Len(s)))

normalize_filename(filename) == Lower(CleanSpecial(Stem(filename)))

\* ------------------------------------------------------------------------
\* Cell values of a pandas frame: NaN, a str or a number
\* ------------------------------------------------------------------------
NaN == [t |-> "nan", s |-> "", n |-> 0]

StrCell(x) == [t |-> "str", s |-> x, n |-> 0]

NumCell(k) == [t |-> "num", s |-> "", n |-> k]

\* pd.isna(value) for a scalar
isna(v) == v.t = "nan"

RECURSIVE NatToStr(_)
NatToStr(k) ==
    IF k < 10 THEN CharAt(DigitChars, k + 1)
    ELSE NatToStr(k \div 10) \o CharAt(DigitChars, (k % 10) + 1)

\* str(value) for a str or an int
PyStr(v) ==
    CASE v.t = "str" -> v.s
      [] v.t = "num" -> IF v.n < 0 THEN "-" \o NatToStr(0 - v.n) ELSE NatToStr(v.n)
      [] OTHER       -> "nan"

\* "not value": the empty str and the number zero are falsy
Falsy(v) == (v.t = "str" /\ v.s = "") \/ (v.t = "num" /\ v.n = 0)

\* Optional[str]: None is <<>>, a value x is <<x>>
None == <<>>

Some(x) == <<x>>

\* ------------------------------------------------------------------------
\* DataMapper.find_matching_image
\* ------------------------------------------------------------------------
CorePrefixes == <<"img", "image", "photo", "pic">>

\* re.sub(r'^(img|image|photo|pic)_?', '', s): the first alternative that
\* matches at the start, then one optional underscore
StripCorePrefix(s) ==
    LET ks == {k \in 1..Len(CorePrefixes) : StartsWith(s, CorePrefixes[k])}
    IN  IF ks = {} THEN s
        ELSE LET k    == CHOOSE a \in ks : \A b \in ks : a <= b
                 rest == SubSeq(s, Len(CorePrefixes[k]) + 1, Len(s))
             IN  IF StartsWith(rest, "_") THEN SubSeq(rest, 2, Len(rest)) ELSE rest

\* re.sub(r'_?(img|image|photo|pic)$', '', s): the leftmost position from
\* which the rest of s is an optional underscore and one of the words
StripCoreSuffix(s) ==
    LET tails == {CorePrefixes[k] : k \in 1..Len(CorePrefixes)}
                 \cup {"_" \o CorePrefixes[k] : k \in 1..Len(CorePrefixes)}
        ps    == {i \in 1..Len(s) : SubSeq(s, i, Len(s)) \in tails}
    IN  IF ps = {} THEN s
        ELSE SubSeq(s, 1, (CHOOSE i \in ps : \A j \in ps : i <= j) - 1)

CoreOf(s) == StripCoreSuffix(StripCorePrefix(s))

\* the three tests of find_matching_image, on a normalized reference
ExactHit(ref_clean, image_filename) == normalize_filename(image_filename) = ref_clean

ContainHit(ref_clean, image_filename) ==
    LET image_clean == normalize_filename(image_filename)
    IN  Contains(ref_clean, image_clean) \/ Contains(image_clean, ref_clean)

CoreHit(ref_clean, image_filename) ==
    LET ref_core   == CoreOf(ref_clean)
        image_core == CoreOf(normalize_filename(image_filename))
    IN  /\ ref_core # ""
        /\ image_core # ""
        /\ (Contains(ref_core, image_core) \/ Contains(image_core, ref_core))

\* image_data.keys(): the filenames in insertion order
Keys(image_data) == [i \in 1..Len(image_data) |-> image_data[i].filename]

RECURSIVE FirstExact(_, _, _)
\* for image_filename in image_data.keys(): if ... == ref_clean: return
FirstExact(ref_clean, keys, i) ==
    IF i > Len(keys) THEN None
    ELSE IF ExactHit(ref_clean, keys[i]) THEN Some(keys[i])
    ELSE FirstExact(ref_clean, keys, i + 1)

RECURSIVE FirstContain(_, _, _)
FirstContain(ref_clean, keys, i) ==
    IF i > Len(keys) THEN None
    ELSE IF ContainHit(ref_clean, keys[i]) THEN Some(keys[i])
    ELSE FirstContain(ref_clean, keys, i + 1)

RECURSIVE FirstCore(_, _, _)
FirstCore(ref_clean, keys, i) ==
    IF i > Len(keys) THEN None
    ELSE IF CoreHit(ref_clean, keys[i]) THEN Some(keys[i])
    ELSE FirstCore(ref_clean, keys, i + 1)

RECURSIVE FirstAnyTier(_, _, _)
\* a single loop that tries the three tests on each image in turn
FirstAnyTier(ref_clean, keys, i) ==
    IF i > Len(keys) THEN None
    ELSE IF \/ ExactHit(ref_clean, keys[i])
            \/ ContainHit(ref_clean, keys[i])
            \/ CoreHit(ref_clean, keys[i]) THEN Some(keys[i])
    ELSE FirstAnyTier(ref_clean, keys, i + 1)

find_matching_image_one_pass(ref_photo, image_data) ==
    IF isna(ref_photo) \/ Falsy(ref_photo) THEN None
    ELSE FirstAnyTier(normalize_filename(PyStr(ref_photo)), Keys(image_data), 1)

find_matching_image(ref_photo, image_data) ==
    IF isna(ref_photo) \/ Falsy(ref_photo) THEN None
    ELSE LET ref_clean == normalize_filename(PyStr(ref_photo))
             keys      == Keys(image_data)
             exact     == FirstExact(ref_clean, keys, 1)
             partial   == FirstContain(ref_clean, keys, 1)
         IN  IF exact # None THEN exact
             ELSE IF partial # None THEN partial
             ELSE FirstCore(ref_clean, keys, 1)

\* ------------------------------------------------------------------------
\* ExcelProcessor.process_excel, on the frame read with header=None:
\* a sequence of rows, each a sequence of cells of the same width
\* ------------------------------------------------------------------------
NRows(df) == Len(df)

NCols(df) == IF Len(df) = 0 THEN 0 ELSE Len(df[1])

\* str(k) for an int
IntToStr(k) == IF k < 0 THEN "-" \o NatToStr(0 - k) ELSE NatToStr(k)

\* first index (0-based) of the Python slice [k:] of a sequence of length n
SliceStart(k, n) ==
    IF k >= 0 THEN (IF k < n THEN k ELSE n)
    ELSE (IF n + k > 0 THEN n + k ELSE 0)

\* 0-based position that integer indexing with k reads in a sequence of
\* length n (k in -n..n-1; anything else is an IndexError)
IlocIndex(k, n) == IF k >= 0 THEN k ELSE n + k

IlocInRange(k, n) == (0 - n) <= k /\ k < n

\* row[start_col:]
ColSlice(row, start_col) == SubSeq(row, SliceStart(start_col, Len(row)) + 1, Len(row))

\* df.iloc[start_row, start_col:].values
HeaderRow(df, start_row, start_col) ==
    ColSlice(df[IlocIndex(start_row, NRows(df)) + 1], start_col)

\* df.iloc[start_row:, start_col:]: the header row is taken as data too
DataRowsFromHeader(df, start_row, start_col) ==
    LET first == SliceStart(start_row, NRows(df))
    IN  [r \in 1..(NRows(df) - first) |-> ColSlice(df[first + r], start_col)]

\* df.iloc[start_row + 1:, start_col:]
DataRows(df, start_row, start_col) ==
    LET first == SliceStart(start_row + 1, NRows(df))
    IN  [r \in 1..(NRows(df) - first) |-> ColSlice(df[first + r], start_col)]

\* one cleaned header: Column_<start_col + i> for a blank one
CleanHeader(header, start_col, i) ==
    IF isna(header) \/ Strip(PyStr(header)) = ""
    THEN "Column_" \o IntToStr(start_col + i)
    ELSE Strip(PyStr(header))

CleanHeaders(header_row, start_col) ==
    [i \in 1..Len(header_row) |-> CleanHeader(header_row[i], start_col, i - 1)]

Failure(kind) ==
    [ok |-> FALSE, error |-> kind, columns |-> <<>>, rows |-> <<>>, header_row |-> 0 - 1]

\* the frame returned (ok), or the exception raised; header_row is the
\* 0-based sheet row the headers were read from
process_excel(df, start_row, start_col) ==
    IF start_row < NRows(df) /\ ~IlocInRange(start_row, NRows(df))
        THEN Failure("IndexError")
    ELSE IF start_row >= NRows(df) THEN Failure("StartRowBeyond")
    ELSE IF start_col >= NCols(df) THEN Failure("StartColBeyond")
    ELSE IF start_row + 1 >= NRows(df) THEN Failure("NoDataRows")
    ELSE [ok         |-> TRUE,
          error      |-> "",
          columns    |-> CleanHeaders(HeaderRow(df, start_row, start_col), start_col),
          rows       |-> DataRows(df, start_row, start_col),
          header_row |-> IlocIndex(start_row, NRows(df))]

\* ------------------------------------------------------------------------
\* DataMapper.map_data and its helpers.  A frame is [columns, rows]: the
\* column names in order and the rows, each a sequence of cells
\* ------------------------------------------------------------------------
\* Python None as a value handed between the helpers
PyNone == [t |-> "none", s |-> "", n |-> 0]

IsDigits(s) == Len(s) >= 1 /\ \A i \in 1..Len(s) : InStr(CharAt(s, i), DigitChars)

RECURSIVE StrToNat(_)
StrToNat(s) ==
    IF Len(s) = 0 THEN 0
    ELSE 10 * StrToNat(SubSeq(s, 1, Len(s) - 1)) + (PosIn(CharAt(s, Len(s)), DigitChars) - 1)

\* float(s) for the decimal literals [ws][sign]digits[.digits][ws] (either
\* digit run may be empty, not both): None when s is no such literal,
\* otherwise the value in thousandths (three decimals kept)
ParseFloat(s) ==
    LET t      == Strip(s)
        signed == Len(t) > 0 /\ InStr(CharAt(t, 1), "+-")
        body   == IF signed THEN SubSeq(t, 2, Len(t)) ELSE t
        dot    == LastIndexOf(body, ".")
        ip     == IF dot = 0 THEN body ELSE SubSeq(body, 1, dot - 1)
        fp     == IF dot = 0 THEN "" ELSE SubSeq(body, dot + 1, Len(body))
        wellformed == /\ (ip = "" \/ IsDigits(ip))
                      /\ (fp = "" \/ IsDigits(fp))
                      /\ (ip # "" \/ fp # "")
        fp3    == SubSeq(fp \o "000", 1, 3)
        mag    == 1000 * StrToNat(ip) + StrToNat(fp3)
    IN  IF ~wellformed THEN None
        ELSE Some(IF signed /\ CharAt(t, 1) = "-" THEN 0 - mag ELSE mag)

\* _safe_float_convert: Optional[float], the float in thousandths
safe_float_convert(value) ==
    IF value.t \in {"nan", "none"} \/ (value.t = "str" /\ value.s = "") THEN None
    ELSE IF value.t = "num" THEN Some(1000 * value.n)
    ELSE ParseFloat(value.s)

\* positions of the columns called name
ColumnPositions(columns, name) == {i \in 1..Len(columns) : columns[i] = name}

\* row[name] for a name carried by two columns is a Series, and testing
\* pd.isna(Series) or "not Series" for truth raises ValueError
IsSeries(columns, name) == Cardinality(ColumnPositions(columns, name)) > 1

\* row[name] for a name carried by one column
RowGet(columns, row, name) == row[CHOOSE i \in ColumnPositions(columns, name) : TRUE]

RECURSIVE GetFrom(_, _, _, _, _)
\* _get_column_value from candidate k on: [raised, value]
GetFrom(columns, row, possible_columns, default, k) ==
    IF k > Len(possible_columns) THEN [raised |-> FALSE, value |-> default]
    ELSE IF ColumnPositions(columns, possible_columns[k]) = {}
        THEN GetFrom(columns, row, possible_columns, default, k + 1)
    ELSE IF IsSeries(columns, possible_columns[k])
        THEN [raised |-> TRUE, value |-> default]
    ELSE IF ~isna(RowGet(columns, row, possible_columns[k]))
        THEN [raised |-> FALSE, value |-> RowGet(columns, row, possible_columns[k])]
    ELSE GetFrom(columns, row, possible_columns, default, k + 1)

get_column_value(columns, row, possible_columns, default) ==
    GetFrom(columns, row, possible_columns, default, 1)

\* the candidate column names of each field, in the order tried
YProjColumns == <<"y_proj", "Y_Proj", "yProj", "Y", "Latitude">>
XProjColumns == <<"x_proj", "X_Proj", "xProj", "X", "Longitude">>
SpeciesColumns == <<"nom de l'espèce", "Species Name", "speciesName", "Species", "Name">>
FamilyColumns == <<"famille", "Family", "family">>
FormationColumns == <<"formation", "Formation", "Habitat">>
SlopeColumns == <<"pente", "Slope", "slope">>
ExposureColumns == <<"exposition", "Exposure", "exposure", "Aspect">>
AltitudeColumns == <<"Altitude", "altitude", "Elevation">>

\* a key of column_mapping that only lower-cases
FoldNameNoStrip(name) == Lower(name)

\* a key of column_mapping: col.lower().strip()
FoldName(name) == Strip(Lower(name))

\* the column ref_photo_column names: itself when it is a column, else the
\* last column whose folded name equals the folded request (a dict keeps
\* the last value written under a key), else None (the exception)
resolve_column(columns, ref_photo_column) ==
    IF ColumnPositions(columns, ref_photo_column) # {} THEN Some(ref_photo_column)
    ELSE LET hits == {i \in 1..Len(columns) : FoldName(columns[i]) = FoldName(ref_photo_column)}
         IN  IF hits = {} THEN None
             ELSE Some(columns[CHOOSE i \in hits : \A j \in hits : j <= i])

\* f"{session_id}/{ref}": the reference in place of the matched filename
image_path_of_reference(session_id, matching_image, ref_photo) ==
    session_id \o "/" \o PyStr(ref_photo)

\* f"{session_id}/{matching_image}"
image_path(session_id, matching_image, ref_photo) == session_id \o "/" \o matching_image

\* image_data[matching_image]
ImageOf(image_data, matching_image) ==
    image_data[CHOOSE i \in 1..Len(image_data) : image_data[i].filename = matching_image]

\* the plant_data dict of one matched row; floats are Optional values
plant_data(columns, row, index, ref_photo, matching_image, image_data, session_id) ==
    LET get(cands, default) == get_column_value(columns, row, cands, default)
    IN  [id          |-> "uuid-" \o NatToStr(index),
         refPhoto    |-> IF ~isna(ref_photo) THEN PyStr(ref_photo)
                         ELSE "ref_" \o NatToStr(index),
         yProj       |-> safe_float_convert(get(YProjColumns, PyNone).value),
         xProj       |-> safe_float_convert(get(XProjColumns, PyNone).value),
         speciesName |-> PyStr(get(SpeciesColumns, StrCell("Unknown Species")).value),
         family      |-> PyStr(get(FamilyColumns, StrCell("Unknown Family")).value),
         formation   |-> PyStr(get(FormationColumns, StrCell("Unknown Formation")).value),
         slope       |-> safe_float_convert(get(SlopeColumns, PyNone).value),
         exposure    |-> PyStr(get(ExposureColumns, StrCell("Unknown")).value),
         altitude    |-> safe_float_convert(get(AltitudeColumns, NumCell(0)).value),
         imagePath   |-> image_path(session_id, matching_image, ref_photo),
         imageSize   |-> ImageOf(image_data, matching_image).size_mb]

\* whether building plant_data raises: some candidate lookup met a Series
plant_data_raises(columns, row) ==
    \E cands \in {YProjColumns, XProjColumns, SpeciesColumns, FamilyColumns,
                  FormationColumns, SlopeColumns, ExposureColumns, AltitudeColumns} :
        get_column_value(columns, row, cands, PyNone).raised

\* models.Plant: yProj, xProj and altitude are declared float and reject
\* None; slope is Optional[float]
PlantValid(data) == data.yProj # None /\ data.xProj # None /\ data.altitude # None

\* one pass of the loop body for row index (0-based): what the row came to,
\* "record" with the Plant built, "nomatch" (continue) or "error" (except)
row_outcome(columns, row, index, ref_column, image_data, session_id) ==
    LET nothing == [kind |-> "nomatch", plant |-> <<>>]
        failed  == [kind |-> "error", plant |-> <<>>]
    IN  IF IsSeries(columns, ref_column) THEN failed
        ELSE LET ref_photo      == RowGet(columns, row, ref_column)
                 matching_image == find_matching_image(ref_photo, image_data)
             IN  IF matching_image = None \/ matching_image = Some("") THEN nothing
                 ELSE IF plant_data_raises(columns, row) THEN failed
                 ELSE LET data == plant_data(columns, row, index, ref_photo,
                                             matching_image[1], image_data, session_id)
                      IN  IF PlantValid(data) THEN [kind |-> "record", plant |-> <<data>>]
                          ELSE failed

\* the loop state after an except clause that ends the loop
after_row_stop_on_error(acc, outcome, nrows) ==
    IF outcome.kind = "record"
    THEN [plants |-> Append(acc.plants, outcome.plant[1]),
          families |-> acc.families \cup {outcome.plant[1].family},
          successful_mappings |-> acc.successful_mappings + 1,
          index |-> acc.index + 1]
    ELSE IF outcome.kind = "error" THEN [acc EXCEPT !.index = nrows]
    ELSE [acc EXCEPT !.index = @ + 1]

\* the loop state after one row: append, add, count on a record; continue
\* on no match and in the except clause
after_row(acc, outcome, nrows) ==
    IF outcome.kind = "record"
    THEN [plants |-> Append(acc.plants, outcome.plant[1]),
          families |-> acc.families \cup {outcome.plant[1].family},
          successful_mappings |-> acc.successful_mappings + 1,
          index |-> acc.index + 1]
    ELSE [acc EXCEPT !.index = @ + 1]

\* code points in increasing order, for the characters of the model
CodePointOrder ==
    " #-./0123456789ABCDEFGHIJKLMNOPQRSTUVWXYZ_abcdefghijklmnopqrstuvwxyz"

RECURSIVE StrLess(_, _)
\* a < b on str
StrLess(a, b) ==
    IF Len(b) = 0 THEN FALSE
    ELSE IF Len(a) = 0 THEN TRUE
    ELSE IF CharAt(a, 1) = CharAt(b, 1) THEN StrLess(SubSeq(a, 2, Len(a)), SubSeq(b, 2, Len(b)))
    ELSE PosIn(CharAt(a, 1), CodePointOrder) < PosIn(CharAt(b, 1), CodePointOrder)

RECURSIVE SortedList(_)
\* sorted(list(S)) for a set of str
SortedList(S) ==
    IF S = {} THEN <<>>
    ELSE LET least == CHOOSE a \in S : \A b \in S \ {a} : StrLess(a, b)
         IN  <<least>> \o SortedList(S \ {least})

\* PlantDatabaseMetadata as map_data fills it (processingDate left out)
metadata_of(plants_, image_data, successful, session_id, nrows) ==
    [totalPlants        |-> Len(plants_),
     totalImages        |-> Len(image_data),
     successfullyMapped |-> successful,
     dataSource         |-> "Excel upload - Session " \o session_id,
     sessionId          |-> session_id]

NoMetadata ==
    [totalPlants |-> 0, totalImages |-> 0, successfullyMapped |-> 0,
     dataSource |-> "", sessionId |-> ""]

\* the loop variables before the first row
EmptyAcc == [plants |-> <<>>, families |-> {}, successful_mappings |-> 0, index |-> 0]

\* no PlantDatabase: the value of a call that has not returned one
NoResult ==
    [ok |-> FALSE, error |-> [requested |-> "", available |-> <<>>],
     metadata |-> NoMetadata, families |-> <<>>, plants |-> <<>>]

\* the exception of lines 252-254
ColumnNotFound(excel_data, ref_photo_column) ==
    [NoResult EXCEPT !.error = [requested |-> ref_photo_column,
                                available |-> excel_data.columns]]

\* the PlantDatabase of lines 299-313
plant_database(acc, excel_data, image_data, session_id) ==
    [ok       |-> TRUE,
     error    |-> NoResult.error,
     metadata |-> metadata_of(acc.plants, image_data, acc.successful_mappings,
                              session_id, Len(excel_data.rows)),
     families |-> SortedList(acc.families),
     plants   |-> acc.plants]

RECURSIVE MapLoop(_, _, _, _, _)
\* the loop of lines 256-297 from the position of acc to the last row
MapLoop(excel_data, image_data, column, session_id, acc) ==
    IF acc.index >= Len(excel_data.rows) THEN acc
    ELSE MapLoop(excel_data, image_data, column, session_id,
                 after_row(acc,
                           row_outcome(excel_data.columns, excel_data.rows[acc.index + 1],
                                       acc.index, column, image_data, session_id),
                           Len(excel_data.rows)))

\* map_data as one call
map_data(excel_data, image_data, ref_photo_column, session_id) ==
    LET found == resolve_column(excel_data.columns, ref_photo_column)
    IN  IF found = None THEN ColumnNotFound(excel_data, ref_photo_column)
        ELSE plant_database(MapLoop(excel_data, image_data, found[1], session_id, EmptyAcc),
                            excel_data, image_data, session_id)

\* ------------------------------------------------------------------------
\* ImageProcessor.process_images.  A directory entry is a record
\* [name, is_file, decodes, bytes]
\* ------------------------------------------------------------------------
supported_formats == {".jpg", ".jpeg", ".png", ".bmp", ".tiff", ".tif"}

\* PurePath.suffix
Suffix(s) ==
    LET name == PathName(s)
        i    == LastIndexOf(name, ".")
    IN  IF 1 < i /\ i < Len(name) THEN SubSeq(name, i, Len(name)) ELSE ""

BytesPerMB == 1048576

\* round(bytes / (1024 * 1024), 2) in hundredths, ties to the even value
SizeMB(bytes) ==
    LET q == (100 * bytes) \div BytesPerMB
        r == (100 * bytes) % BytesPerMB
    IN  IF 2 * r > BytesPerMB THEN q + 1
        ELSE IF 2 * r < BytesPerMB THEN q
        ELSE IF q % 2 = 0 THEN q ELSE q + 1

\* whether an entry yields a record: a regular file of a supported format
\* that Image.open can read
Scanned(entry) ==
    /\ entry.is_file
    /\ Lower(Suffix(entry.name)) \in supported_formats
    /\ entry.decodes

RECURSIVE ScanFrom(_, _)
ScanFrom(all_files, i) ==
    IF i > Len(all_files) THEN <<>>
    ELSE (IF Scanned(all_files[i])
          THEN <<[filename |-> all_files[i].name, size_mb |-> SizeMB(all_files[i].bytes)]>>
          ELSE <<>>) \o ScanFrom(all_files, i + 1)

\* one pass of the loop body with an except clause that re-raises
scan_entry_propagating(image_data, entry) ==
    IF ~entry.is_file THEN [image_data |-> image_data, raised |-> FALSE]
    ELSE IF Lower(Suffix(entry.name)) \notin supported_formats
        THEN [image_data |-> image_data, raised |-> FALSE]
    ELSE IF ~entry.decodes THEN [image_data |-> image_data, raised |-> TRUE]
    ELSE [image_data |-> Append(image_data,
                                [filename |-> entry.name, size_mb |-> SizeMB(entry.bytes)]),
          raised     |-> FALSE]

\* one pass of the loop body of lines 142-180 on a directory entry: the
\* mapping afterwards, and whether an exception leaves process_images.
\* Image.open raising is caught by the except clause of line 178
scan_entry(image_data, entry) ==
    IF ~entry.is_file THEN [image_data |-> image_data, raised |-> FALSE]
    ELSE IF Lower(Suffix(entry.name)) \notin supported_formats
        THEN [image_data |-> image_data, raised |-> FALSE]
    ELSE IF ~entry.decodes THEN [image_data |-> image_data, raised |-> FALSE]
    ELSE [image_data |-> Append(image_data,
                                [filename |-> entry.name, size_mb |-> SizeMB(entry.bytes)]),
          raised     |-> FALSE]

\* the mapping returned for a directory: exists is os.path.exists, all_files
\* the entries in the order os.listdir gives them
process_images(exists, all_files) == IF ~exists THEN <<>> ELSE ScanFrom(all_files, 1)

\* ------------------------------------------------------------------------
\* main.py: the session endpoints
\* ------------------------------------------------------------------------
ExcelSuffixes == {".xlsx", ".xls", ".ods"}

UploadImageSuffixes == <<".jpg", ".jpeg", ".png", ".bmp", ".tiff", ".tif">>

StaticCopySuffixes == <<".jpg", ".jpeg", ".png", ".bmp", ".tiff">>

\* s.endswith(t) for some t of the tuple
EndsWithAny(s, suffixes) == \E k \in 1..Len(suffixes) : EndsWith(s, suffixes[k])

\* os.path.basename
Basename(member) == PathName(member)

\* models.ProcessingStatus as upload_excel builds it
NewStatus(session_id, filename) ==
    [session_id          |-> session_id,
     excel_uploaded      |-> TRUE,
     excel_filename      |-> filename,
     excel_path          |-> "uploads/excel/" \o session_id \o "/" \o filename,
     images_uploaded     |-> FALSE,
     image_count         |-> 0,
     uploaded_images     |-> <<>>,
     processing_complete |-> FALSE,
     output_path         |-> "",
     mapped_plants       |-> 0]

\* no entry under a key of processing_status
NoEntry == [session_id |-> ""]

RECURSIVE SavedImages(_, _)
\* upload_images: the names of the files of the request that are stored
SavedImages(files, i) ==
    IF i > Len(files) THEN <<>>
    ELSE (IF EndsWithAny(Lower(files[i]), UploadImageSuffixes) THEN <<files[i]>> ELSE <<>>)
         \o SavedImages(files, i + 1)

\* lines 123-126 and 235-238: the status entry after an image upload
MarkImages(status, stored) ==
    [status EXCEPT !.images_uploaded = TRUE,
                   !.image_count = Len(stored),
                   !.uploaded_images = stored]

RECURSIVE ExtractedImages(_, _)
\* upload_images_zip: the names extracted to the session directory
ExtractedImages(members, i) ==
    IF i > Len(members) THEN <<>>
    ELSE (IF \/ EndsWith(members[i], "/")
             \/ StartsWith(members[i], "__MACOSX/")
             \/ StartsWith(members[i], ".")
          THEN <<>>
          ELSE IF EndsWithAny(Lower(members[i]), UploadImageSuffixes)
          THEN <<Basename(members[i])>>
          ELSE <<>>) \o ExtractedImages(members, i + 1)

\* the elements of a sequence
Range(f) == {f[i] : i \in 1..Len(f)}

\* ------------------------------------------------------------------------
\* State
\* ------------------------------------------------------------------------
VARIABLES
    m_pc,        \* find_matching_image: "idle", "call" or "done"
    m_ref,       \* its ref_photo argument, a cell
    m_images,    \* its image_data argument, ImageInfo records in key order
    m_result,    \* its return value
    x_pc,        \* process_excel: "idle", "call" or "done"
    x_df,        \* the sheet as read
    x_start_row, \* its start_row argument
    x_start_col, \* its start_col argument
    x_result,    \* the frame returned or the failure raised
    r_pc,        \* map_data: "idle", "start", "loop" or "done"
    r_excel_data,   \* its excel_data argument, [columns, rows]
    r_image_data,   \* its image_data argument
    r_requested,    \* its ref_photo_column argument as passed
    r_column,       \* ref_photo_column as the loop reads it
    r_session_id,   \* its session_id argument
    r_acc,          \* plants, families, successful_mappings and the row position
    r_outcomes,     \* log: what each visited row came to
    r_result,       \* the PlantDatabase returned or the exception raised
    processing_status,  \* main.processing_status: session id -> entry or NoEntry
    fs_excel,       \* uploads/excel/<session>: the names stored
    fs_images,      \* uploads/images/<session>: [exists, files]
    fs_static,      \* static/images/<session>: [exists, files]
    fs_processed,   \* processed_data/<session>_plant_database.json: [exists, plants, paths]
    core_call,      \* log: the inputs the core met when process_data last invoked it
    s_pc,           \* process_images: "idle", "start", "loop" or "done"
    s_kind,         \* its image_dir: "missing", "unlistable" or "dir"
    s_all_files,    \* the entries os.listdir gives, in its order
    s_index,        \* position of the loop in all_files, 1-based
    s_image_data,   \* image_data so far
    s_raised,       \* whether an exception left process_images
    q_pc,           \* the upload request in flight: "idle", "open", "write" or "done"
    q_kind,         \* "images" (upload_images) or "zip" (upload_images_zip)
    q_session,      \* its session_id
    q_files,        \* upload_images: the filenames of the request
    q_zip,          \* upload_images_zip: the archive of the request
    q_index,        \* upload_images: position of the loop in files, 1-based
    q_uploaded,     \* upload_images: uploaded_files so far
    q_outcome       \* "" while in flight, then the HTTP status of the response

matchVars == <<m_pc, m_ref, m_images, m_result>>

extractVars == <<x_pc, x_df, x_start_row, x_start_col, x_result>>

mapVars == <<r_pc, r_excel_data, r_image_data, r_requested, r_column, r_session_id,
             r_acc, r_outcomes, r_result>>

sessionVars == <<processing_status, fs_excel, fs_images, fs_static, fs_processed,
                 core_call>>

scanVars == <<s_pc, s_kind, s_all_files, s_index, s_image_data, s_raised>>

requestVars == <<q_pc, q_kind, q_session, q_files, q_zip, q_index, q_uploaded, q_outcome>>

vars == <<matchVars, extractVars, mapVars, sessionVars, scanVars, requestVars>>

\* models.ImageInfo; size_mb in hundredths of a megabyte
ImageInfo(name, size) == [filename |-> name, size_mb |-> size]

\* sequences of at most n distinct elements of S
InjSeqs(S, n) ==
    UNION {{f \in [1..k -> S] : \A i, j \in 1..k : i # j => f[i] # f[j]} : k \in 0..n}

\* ------------------------------------------------------------------------
\* Specification of the matcher alone: find_matching_image applied to one
\* reference cell and one images mapping
\* ------------------------------------------------------------------------
MatchFiles ==
    { ImageInfo("plant_01.jpg", 120), ImageInfo("Plant-02.PNG", 85),
      ImageInfo("plant_010.tif", 7), ImageInfo("IMG_07.jpeg", 301),
      ImageInfo("a07b_pic.jpg", 44), ImageInfo("photo_07_v2.png", 12),
      ImageInfo("12.bmp", 1), ImageInfo("#.png", 3) }

MatchRefs ==
    { NaN, StrCell(""), NumCell(0), NumCell(12),
      StrCell("plant_01"), StrCell("PLANT 02"), StrCell("Plant_01.JPG"),
      StrCell("photos/plant_010.tif"), StrCell("img_07"), StrCell("photo_07"),
      StrCell("07"), StrCell("pic"), StrCell("  "), StrCell("zz"), StrCell("plant") }

MatchIdle ==
    /\ m_pc = "idle"
    /\ m_ref = NaN
    /\ m_images = <<>>
    /\ m_result = None

ExtractIdle ==
    /\ x_pc = "idle"
    /\ x_df = <<>>
    /\ x_start_row = 0
    /\ x_start_col = 0
    /\ x_result = Failure("")

MapIdle ==
    /\ r_pc = "idle"
    /\ r_excel_data = [columns |-> <<>>, rows |-> <<>>]
    /\ r_image_data = <<>>
    /\ r_requested = ""
    /\ r_column = ""
    /\ r_session_id = ""
    /\ r_acc = EmptyAcc
    /\ r_outcomes = <<>>
    /\ r_result = NoResult

SessionIds == {"s1"}

NoDir == [exists |-> FALSE, files |-> {}]

\* no processed_data/<session>_plant_database.json
NoOutput == [exists |-> FALSE, plants |-> 0, paths |-> {}]

NoCall == [called |-> FALSE, excel_stored |-> FALSE, image_files |-> 0]

SessionIdle ==
    /\ processing_status = [s \in SessionIds |-> NoEntry]
    /\ fs_excel = [s \in SessionIds |-> {}]
    /\ fs_images = [s \in SessionIds |-> NoDir]
    /\ fs_static = [s \in SessionIds |-> NoDir]
    /\ fs_processed = [s \in SessionIds |-> NoOutput]
    /\ core_call = NoCall

ScanIdle ==
    /\ s_pc = "idle"
    /\ s_kind = "missing"
    /\ s_all_files = <<>>
    /\ s_index = 1
    /\ s_image_data = <<>>
    /\ s_raised = FALSE

NoZip == [filename |-> "", valid |-> FALSE, members |-> <<>>]

RequestIdle ==
    /\ q_pc = "idle"
    /\ q_kind = ""
    /\ q_session = ""
    /\ q_files = <<>>
    /\ q_zip = NoZip
    /\ q_index = 1
    /\ q_uploaded = <<>>
    /\ q_outcome = ""

MatchInit ==
    /\ m_pc = "call"
    /\ m_ref \in MatchRefs
    /\ m_images \in InjSeqs(MatchFiles, MaxImages)
    /\ m_result = None
    /\ ExtractIdle
    /\ MapIdle
    /\ SessionIdle
    /\ ScanIdle
    /\ RequestIdle

MatchCall ==
    /\ m_pc = "call"
    /\ m_result' = find_matching_image(m_ref, m_images)
    /\ m_pc' = "done"
    /\ UNCHANGED <<m_ref, m_images, extractVars, mapVars, sessionVars, scanVars, requestVars>>

MatchNext == MatchCall

SpecMatch == MatchInit /\ [][MatchNext]_vars

\* the positions of the images mapping that pass a test
ExactSet == {i \in 1..Len(m_images) :
                normalize_filename(m_images[i].filename) = normalize_filename(PyStr(m_ref))}

ContainSet == {i \in 1..Len(m_images) :
                LET a == normalize_filename(m_images[i].filename)
                    b == normalize_filename(PyStr(m_ref))
                IN  Contains(a, b) \/ Contains(b, a)}

CoreSet == {i \in 1..Len(m_images) : CoreHit(normalize_filename(PyStr(m_ref)), m_images[i].filename)}

MinOf(S) == CHOOSE i \in S : \A j \in S : i <= j

MatchedRef == m_pc = "done" /\ ~isna(m_ref) /\ ~Falsy(m_ref)

\* C1: for a non-blank reference the result is the first image, in key
\* order, of the strictest tier (exact, then containment, then core-stripped
\* containment) that any image of the mapping passes; None when none passes.
C1_TierOrder ==
    MatchedRef =>
        /\ ExactSet # {} => m_result = Some(m_images[MinOf(ExactSet)].filename)
        /\ (ExactSet = {} /\ ContainSet # {}) =>
               m_result = Some(m_images[MinOf(ContainSet)].filename)
        /\ (ExactSet = {} /\ ContainSet = {} /\ CoreSet # {}) =>
               m_result = Some(m_images[MinOf(CoreSet)].filename)
        /\ (ExactSet = {} /\ ContainSet = {} /\ CoreSet = {}) => m_result = None

\* C1 witness: an exact hit later in the mapping wins over an earlier image
\* that only passes containment
C1_Witness ==
    /\ MatchedRef
    /\ ExactSet # {}
    /\ \E i \in ContainSet \ ExactSet : i < MinOf(ExactSet)
    /\ m_result = Some(m_images[MinOf(ExactSet)].filename)

\* C14: a non-blank reference whose normalized key is the empty string is
\* matched to no image, whatever non-empty images mapping is given.
C14_EmptyKeyNoMatch ==
    ( /\ MatchedRef
      /\ normalize_filename(PyStr(m_ref)) = ""
      /\ m_images # <<>> )
    => m_result = None

\* ------------------------------------------------------------------------
\* Specification of the extractor alone: process_excel applied to one sheet
\* and one origin
\* ------------------------------------------------------------------------
RowKinds == {"names", "blank", "same", "nums"}

\* a sheet row of width w of each kind
SheetRow(kind, w) ==
    [c \in 1..w |->
        CASE kind = "names" -> StrCell(" col" \o NatToStr(c) \o " ")
          [] kind = "blank" -> (IF c % 2 = 1 THEN NaN ELSE StrCell("  "))
          [] kind = "same"  -> StrCell("Family")
          [] OTHER          -> NumCell(c)]

Sheets ==
    {<<>>} \cup
    UNION {{[r \in 1..h |-> SheetRow(ks[r], w)] : ks \in [1..h -> RowKinds]} :
              h \in 1..MaxSheetRows, w \in 1..MaxSheetCols}

Origins == (0 - (MaxSheetRows + 1))..(MaxSheetRows + 1)

ExtractInit ==
    /\ x_pc = "call"
    /\ x_df \in Sheets
    /\ x_start_row \in Origins
    /\ x_start_col \in Origins
    /\ x_result = Failure("")
    /\ MatchIdle
    /\ MapIdle
    /\ SessionIdle
    /\ ScanIdle
    /\ RequestIdle

ExtractCall ==
    /\ x_pc = "call"
    /\ x_result' = process_excel(x_df, x_start_row, x_start_col)
    /\ x_pc' = "done"
    /\ UNCHANGED <<x_df, x_start_row, x_start_col, matchVars, mapVars, sessionVars, scanVars, requestVars>>

ExtractNext == ExtractCall

SpecExtract == ExtractInit /\ [][ExtractNext]_vars

OriginInSheet ==
    /\ 0 <= x_start_row /\ x_start_row < NRows(x_df)
    /\ 0 <= x_start_col /\ x_start_col < NCols(x_df)

ShapeAsClaimed ==
    /\ x_result.ok
    /\ Len(x_result.columns) = NCols(x_df) - x_start_col
    /\ Len(x_result.rows) = NRows(x_df) - x_start_row - 1
    /\ \A r \in 1..Len(x_result.rows) : Len(x_result.rows[r]) = Len(x_result.columns)

\* C5 as stated: every origin inside the sheet, the last row included,
\* yields a table of C - originCol columns and R - originRow - 1 rows.
C5_Original == (x_pc = "done" /\ OriginInSheet) => ShapeAsClaimed

\* C5 amended: an origin inside the sheet with at least one row after it
\* yields a table of C - originCol columns and R - originRow - 1 rows (so at
\* least one row); with originRow on the last row extract fails instead.
C5_Shape ==
    (x_pc = "done" /\ OriginInSheet) =>
        IF x_start_row < NRows(x_df) - 1
        THEN ShapeAsClaimed /\ Len(x_result.rows) >= 1
        ELSE ~x_result.ok /\ x_result.error = "NoDataRows"

\* C5 witness: an origin off the sheet's corner, two data rows returned
C5_Witness ==
    /\ x_pc = "done"
    /\ x_start_row = 0
    /\ x_start_col = 1
    /\ NRows(x_df) = 3
    /\ NCols(x_df) = 2
    /\ x_result.ok
    /\ Len(x_result.rows) = 2
    /\ Len(x_result.columns) = 1

\* C6: extract fails when originRow >= rows, originCol >= columns or no row
\* follows originRow; for any other origin, negative ones included, it fails
\* or returns a table whose headers were read from sheet row originRow.
C6_RangeOrOwnRow ==
    x_pc = "done" =>
        /\ (\/ x_start_row >= NRows(x_df)
            \/ x_start_col >= NCols(x_df)
            \/ x_start_row + 1 >= NRows(x_df)) => ~x_result.ok
        /\ x_result.ok => x_result.header_row = x_start_row

\* the sheet cell under column i (1-based) of the returned table
HeaderCellOf(i) == x_df[x_start_row + 1][x_start_col + i]

BlankHeader(cell) == cell.t = "nan" \/ Strip(PyStr(cell)) = ""

\* C12: for an origin inside the sheet, the column names of the returned
\* table are non-empty, Column_<absolute column index> for a blank header
\* cell and the trimmed string form of the cell otherwise, and no two
\* columns share a name.
C12_ColumnNames ==
    (x_pc = "done" /\ OriginInSheet /\ x_result.ok) =>
        /\ \A i \in 1..Len(x_result.columns) :
              /\ x_result.columns[i] # ""
              /\ x_result.columns[i] =
                    IF BlankHeader(HeaderCellOf(i))
                    THEN "Column_" \o NatToStr(x_start_col + i - 1)
                    ELSE Strip(PyStr(HeaderCellOf(i)))
        /\ \A i, j \in 1..Len(x_result.columns) :
              i # j => x_result.columns[i] # x_result.columns[j]

\* ------------------------------------------------------------------------
\* Specification of the mapper alone: map_data applied to one frame, one
\* images mapping and one requested column, visiting the rows one by one
\* ------------------------------------------------------------------------
\* column names of the frames: reference, y, x, altitude, slope by position
MapLayouts ==
    { <<"Ref", "Y", "X", "Altitude", "Slope">>,
      <<" ref ", "y_proj", "Longitude", " Family ", "pente">>,
      <<"REF", "ref", "Latitude", "X", "Family">>,
      <<"Ref", "Y", "Y", "Altitude", "Slope">>,
      <<"Ref", "Y", "X", "Aspect", "exposure">> }

MapRowPool ==
    { <<StrCell("plant_01"), NumCell(10), NumCell(20), NumCell(300), NumCell(5)>>,
      <<StrCell("PLANT 02"), NumCell(11), StrCell("21.5"), NumCell(310), NaN>>,
      <<StrCell("Plant-02"), StrCell(" 12 "), NumCell(22), NaN, StrCell("N/A")>>,
      <<StrCell("plant_01"), StrCell("N/A"), NumCell(23), StrCell("N/A"), NumCell(7)>>,
      <<NaN, StrCell("plant_01"), NaN, StrCell("Rosaceae"), StrCell("Fabaceae")>> }

MapRequests == {"Ref", " REF ", "family", "Photo"}

MapImageSets ==
    { <<>>,
      <<ImageInfo("plant_01.jpg", 120), ImageInfo("Plant-02.PNG", 85)>>,
      <<ImageInfo("plant_010.tif", 7), ImageInfo("plant_01.jpg", 120)>> }

MapInit ==
    /\ r_pc = "start"
    /\ \E cols \in MapLayouts, h \in 0..MaxRows :
          \E rows \in [1..h -> MapRowPool] :
              r_excel_data = [columns |-> cols, rows |-> rows]
    /\ r_image_data \in MapImageSets
    /\ r_requested \in MapRequests
    /\ r_column = r_requested
    /\ r_session_id = "s1"
    /\ r_acc = EmptyAcc
    /\ r_outcomes = <<>>
    /\ r_result = NoResult
    /\ MatchIdle
    /\ ExtractIdle
    /\ SessionIdle
    /\ ScanIdle
    /\ RequestIdle

\* lines 241-254: the column is resolved, or the exception ends map_data
MapResolve ==
    /\ r_pc = "start"
    /\ LET found == resolve_column(r_excel_data.columns, r_requested)
       IN  IF found = None
           THEN /\ r_result' = ColumnNotFound(r_excel_data, r_requested)
                /\ r_pc' = "done"
                /\ r_column' = r_column
           ELSE /\ r_column' = found[1]
                /\ r_pc' = "loop"
                /\ r_result' = r_result
    /\ UNCHANGED <<r_excel_data, r_image_data, r_requested, r_session_id, r_acc,
                   r_outcomes, matchVars, extractVars, sessionVars, scanVars, requestVars>>

\* lines 256-297: one row of the loop
MapVisitRow ==
    /\ r_pc = "loop"
    /\ r_acc.index < Len(r_excel_data.rows)
    /\ LET outcome == row_outcome(r_excel_data.columns,
                                  r_excel_data.rows[r_acc.index + 1], r_acc.index,
                                  r_column, r_image_data, r_session_id)
       IN  /\ r_acc' = after_row(r_acc, outcome, Len(r_excel_data.rows))
           /\ r_outcomes' = Append(r_outcomes, outcome.kind)
    /\ UNCHANGED <<r_pc, r_excel_data, r_image_data, r_requested, r_column, r_session_id,
                   r_result, matchVars, extractVars, sessionVars, scanVars, requestVars>>

\* lines 299-313: the metadata and the PlantDatabase
MapFinish ==
    /\ r_pc = "loop"
    /\ r_acc.index >= Len(r_excel_data.rows)
    /\ r_result' = plant_database(r_acc, r_excel_data, r_image_data, r_session_id)
    /\ r_pc' = "done"
    /\ UNCHANGED <<r_excel_data, r_image_data, r_requested, r_column, r_session_id,
                   r_acc, r_outcomes, matchVars, extractVars, sessionVars, scanVars, requestVars>>

MapNext == MapResolve \/ MapVisitRow \/ MapFinish

SpecMap == MapInit /\ [][MapNext]_vars

\* --- vocabulary of the mapper's properties ---
Columns == r_excel_data.columns

Rows == r_excel_data.rows

\* rows visited so far, 1-based
Visited == 1..Len(r_outcomes)

DistinctColumns == \A i, j \in 1..Len(Columns) : i # j => Columns[i] # Columns[j]

RefUnique == Cardinality(ColumnPositions(Columns, r_column)) = 1

\* the reference cell of row i
RefOf(i) == Rows[i][CHOOSE c \in 1..Len(Columns) : Columns[c] = r_column]

BlankRef(i) == RefOf(i).t = "nan" \/ (RefOf(i).t = "str" /\ RefOf(i).s = "")

\* some image passes some tier for the reference of row i
AnyTierHit(i) ==
    LET ref_clean == normalize_filename(PyStr(RefOf(i)))
    IN  \E k \in 1..Len(r_image_data) :
            \/ ExactHit(ref_clean, r_image_data[k].filename)
            \/ ContainHit(ref_clean, r_image_data[k].filename)
            \/ CoreHit(ref_clean, r_image_data[k].filename)

\* number of records produced by rows 1..i
RecordsUpTo(i) == Cardinality({j \in 1..i : r_outcomes[j] = "record"})

\* the record row i produced, when r_outcomes[i] = "record"
RecordOfRow(i) == r_acc.plants[RecordsUpTo(i)]

\* C2: with images plant_01.jpg, Plant-02.PNG and references "plant_01",
\* "PLANT 02", reconcile yields exactly two records, the first row matched
\* to plant_01.jpg exactly and the second to Plant-02.PNG by containment or
\* core-stripped containment.
C2_TwoRecords ==
    ( /\ r_pc = "done"
      /\ r_result.ok
      /\ RefUnique
      /\ Keys(r_image_data) = <<"plant_01.jpg", "Plant-02.PNG">>
      /\ Len(Rows) = 2
      /\ RefOf(1) = StrCell("plant_01")
      /\ RefOf(2) = StrCell("PLANT 02")
      /\ Columns = <<"Ref", "Y", "X", "Altitude", "Slope">> )
    => /\ Len(r_result.plants) = 2
       /\ r_result.plants[1].imagePath = r_session_id \o "/plant_01.jpg"
       /\ r_result.plants[2].imagePath = r_session_id \o "/Plant-02.PNG"
       /\ ExactHit(normalize_filename("plant_01"), "plant_01.jpg")
       /\ \/ ContainHit(normalize_filename("PLANT 02"), "Plant-02.PNG")
          \/ CoreHit(normalize_filename("PLANT 02"), "Plant-02.PNG")

\* C3: the summary gives totalPlants = rows of the table, totalImages =
\* images available, successfullyMapped = records produced, and
\* successfullyMapped < totalPlants whenever some visited row gave no record.
C3_Summary ==
    (r_pc = "done" /\ r_result.ok) =>
        /\ r_result.metadata.totalPlants = Len(Rows)
        /\ r_result.metadata.totalImages = Len(r_image_data)
        /\ r_result.metadata.successfullyMapped = Len(r_result.plants)
        /\ (\E i \in Visited : r_outcomes[i] # "record") =>
               r_result.metadata.successfullyMapped < r_result.metadata.totalPlants

\* the cell a numeric field of row i is read from (PyNone: every candidate
\* column present is blank in that row)
NumericCell(i, cands) == get_column_value(Columns, Rows[i], cands, PyNone).value

HasCandidate(cands) == \E k \in 1..Len(cands) : ColumnPositions(Columns, cands[k]) # {}

\* blank, or a str that is no number
NotNumeric(v) == v.t \in {"nan", "none"} \/ (v.t = "str" /\ ParseFloat(v.s) = None)

\* C4: a row whose reference resolves to an image still yields its record
\* when the cell of yProj, xProj, slope or altitude is a non-numeric string
\* or blank, and that field of the record is absent.
C4_NumericAbsent ==
    \A i \in Visited :
        ( /\ DistinctColumns
          /\ ~BlankRef(i) /\ AnyTierHit(i)
          /\ \A cands \in {YProjColumns, XProjColumns, SlopeColumns, AltitudeColumns} :
                 HasCandidate(cands) )
        => /\ r_outcomes[i] = "record"
           /\ NotNumeric(NumericCell(i, YProjColumns)) => RecordOfRow(i).yProj = None
           /\ NotNumeric(NumericCell(i, XProjColumns)) => RecordOfRow(i).xProj = None
           /\ NotNumeric(NumericCell(i, SlopeColumns)) => RecordOfRow(i).slope = None
           /\ (NumericCell(i, AltitudeColumns).t = "str"
                  /\ NotNumeric(NumericCell(i, AltitudeColumns)))
               => RecordOfRow(i).altitude = None

\* C7: the requested column resolves to itself when it is a column name,
\* otherwise to a column whose trimmed lower-cased name equals the trimmed
\* lower-cased request; failing both, map_data raises an error carrying the
\* request and all the column names, before any row is visited.
C7_Resolution ==
    r_pc # "start" =>
        LET exact  == \E c \in 1..Len(Columns) : Columns[c] = r_requested
            folded == {c \in 1..Len(Columns) :
                          Lower(Strip(Columns[c])) = Lower(Strip(r_requested))}
        IN  IF exact THEN r_column = r_requested /\ (r_pc = "done" => r_result.ok)
            ELSE IF folded # {}
                THEN /\ r_column \in {Columns[c] : c \in folded}
                     /\ (r_pc = "done" => r_result.ok)
            ELSE /\ r_pc = "done"
                 /\ ~r_result.ok
                 /\ r_result.error = [requested |-> r_requested, available |-> Columns]
                 /\ r_outcomes = <<>>
                 /\ r_acc.plants = <<>>
                 /\ r_result.plants = <<>>

\* C7 witness: the column " Family " answers a request for "family"
C7_Witness ==
    /\ r_pc = "done"
    /\ r_requested = "family"
    /\ r_column = " Family "
    /\ r_result.ok
    /\ Len(r_outcomes) = 2

\* C8: records and rows correspond: the k-th record comes from the k-th row
\* that yielded one, carries that row's reference, and the path and size of
\* the one image the matcher returns for it; a row with a blank reference
\* or with no tier hit yields no record and no error; the result is returned.
C8_Records ==
    (r_pc \in {"loop", "done"} /\ RefUnique) =>
        /\ Len(r_acc.plants) = RecordsUpTo(Len(r_outcomes))
        /\ \A i \in Visited :
              /\ r_outcomes[i] = "record" =>
                    /\ RecordOfRow(i).refPhoto = PyStr(RefOf(i))
                    /\ Cardinality({k \in 1..Len(r_image_data) :
                          /\ RecordOfRow(i).imagePath =
                                r_session_id \o "/" \o r_image_data[k].filename
                          /\ RecordOfRow(i).imageSize = r_image_data[k].size_mb
                          /\ find_matching_image(RefOf(i), r_image_data)
                                = Some(r_image_data[k].filename)}) = 1
              /\ (BlankRef(i) \/ ~AnyTierHit(i)) => r_outcomes[i] = "nomatch"
        /\ r_pc = "done" => (r_result.ok /\ r_result.plants = r_acc.plants)

\* C8 witness: a row without a record between the rows and a record after it
C8_Witness ==
    /\ r_pc = "done"
    /\ RefUnique
    /\ r_outcomes = <<"nomatch", "record">>
    /\ ~BlankRef(1)
    /\ Len(r_result.plants) = 1

\* the rows of the frame whose pass through the loop body raises
FailingRows ==
    {i \in 1..Len(Rows) :
        row_outcome(Columns, Rows[i], i - 1, r_column, r_image_data, r_session_id).kind
            = "error"}

RECURSIVE Without(_, _, _)
\* the rows from position i on, those in drop left out
Without(rows, drop, i) ==
    IF i > Len(rows) THEN <<>>
    ELSE (IF i \in drop THEN <<>> ELSE <<rows[i]>>) \o Without(rows, drop, i + 1)

RECURSIVE RecordsFrom(_, _)
\* the records of the rows from position i on, each row on its own
RecordsFrom(rows, i) ==
    IF i > Len(rows) THEN <<>>
    ELSE LET o == row_outcome(Columns, rows[i], i - 1, r_column, r_image_data, r_session_id)
         IN  (IF o.kind = "record" THEN o.plant ELSE <<>>) \o RecordsFrom(rows, i + 1)

\* records compared up to their freshly generated id
EraseIds(ps) == [k \in 1..Len(ps) |-> [ps[k] EXCEPT !.id = ""]]

\* C9: once the column is resolved, a row that raises is skipped alone:
\* map_data returns a result after visiting every row, and its records are
\* those of the frame with the raising rows left out.
C9_RowFailureIsolated ==
    (r_pc = "done" /\ resolve_column(Columns, r_requested) # None) =>
        /\ r_result.ok
        /\ Len(r_outcomes) = Len(Rows)
        /\ EraseIds(r_result.plants) = EraseIds(RecordsFrom(Without(Rows, FailingRows, 1), 1))

\* C9 witness: a raising row, then a row that yields its record
C9_Witness ==
    /\ r_pc = "done"
    /\ r_outcomes = <<"error", "record">>
    /\ Len(r_result.plants) = 1

\* the cell of the first candidate, in list order, that is a column and is
\* not blank in row i; None when there is no such candidate
FirstPresent(i, cands) ==
    LET ks == {k \in 1..Len(cands) :
                  /\ ColumnPositions(Columns, cands[k]) # {}
                  /\ ~isna(RowGet(Columns, Rows[i], cands[k]))}
    IN  IF ks = {} THEN None ELSE Some(RowGet(Columns, Rows[i], cands[MinOf(ks)]))

\* the text a categorical field is to carry in the record of row i
CategoricalOf(i, cands, sentinel) ==
    IF FirstPresent(i, cands) = None THEN sentinel ELSE PyStr(FirstPresent(i, cands)[1])

\* C11: in the record of a matched row, a categorical field without a
\* present non-blank candidate carries "Unknown Species", "Unknown Family",
\* "Unknown Formation" or "Unknown Exposure" and altitude carries zero;
\* otherwise the field carries the value of the first present non-blank
\* candidate of its ordered list.
C11_Defaults ==
    \A i \in Visited :
        (DistinctColumns /\ r_outcomes[i] = "record") =>
            /\ RecordOfRow(i).speciesName
                  = CategoricalOf(i, SpeciesColumns, "Unknown Species")
            /\ RecordOfRow(i).family = CategoricalOf(i, FamilyColumns, "Unknown Family")
            /\ RecordOfRow(i).formation
                  = CategoricalOf(i, FormationColumns, "Unknown Formation")
            /\ RecordOfRow(i).exposure
                  = CategoricalOf(i, ExposureColumns, "Unknown Exposure")
            /\ RecordOfRow(i).altitude
                  = IF FirstPresent(i, AltitudeColumns) = None THEN Some(0)
                    ELSE safe_float_convert(FirstPresent(i, AltitudeColumns)[1])

\* ------------------------------------------------------------------------
\* Specification of the scan alone: process_images applied to one image
\* directory, visiting its entries one by one
\* ------------------------------------------------------------------------
\* directory entries: [name, is_file, decodes, bytes]
ScanEntries ==
    { [name |-> "a.jpg",     is_file |-> TRUE,  decodes |-> TRUE,  bytes |-> 1258291],
      [name |-> "B.PNG",     is_file |-> TRUE,  decodes |-> TRUE,  bytes |-> 2048],
      [name |-> "bad.tiff",  is_file |-> TRUE,  decodes |-> FALSE, bytes |-> 10],
      [name |-> "sub.jpg",   is_file |-> FALSE, decodes |-> FALSE, bytes |-> 0],
      [name |-> "notes.txt", is_file |-> TRUE,  decodes |-> FALSE, bytes |-> 5],
      [name |-> ".jpg",      is_file |-> TRUE,  decodes |-> TRUE,  bytes |-> 7] }

ScanInit ==
    /\ s_pc = "start"
    /\ \/ s_kind = "dir" /\ s_all_files \in InjSeqs(ScanEntries, MaxEntries)
       \/ s_kind \in {"missing", "unlistable"} /\ s_all_files = <<>>
    /\ s_index = 1
    /\ s_image_data = <<>>
    /\ s_raised = FALSE
    /\ MatchIdle
    /\ ExtractIdle
    /\ MapIdle
    /\ SessionIdle
    /\ RequestIdle

\* lines 126-140: a missing directory and a failing os.listdir both return
\* the empty mapping
ScanStart ==
    /\ s_pc = "start"
    /\ s_pc' = IF s_kind = "dir" THEN "loop" ELSE "done"
    /\ UNCHANGED <<s_kind, s_all_files, s_index, s_image_data, s_raised,
                   matchVars, extractVars, mapVars, sessionVars, requestVars>>

\* lines 142-180: one entry of the loop
ScanVisit ==
    /\ s_pc = "loop"
    /\ s_index <= Len(s_all_files)
    /\ LET after == scan_entry(s_image_data, s_all_files[s_index])
       IN  /\ s_image_data' = after.image_data
           /\ s_raised' = after.raised
           /\ s_pc' = IF after.raised THEN "done" ELSE "loop"
    /\ s_index' = s_index + 1
    /\ UNCHANGED <<s_kind, s_all_files, matchVars, extractVars, mapVars, sessionVars,
                   requestVars>>

\* lines 182-183
ScanReturn ==
    /\ s_pc = "loop"
    /\ s_index > Len(s_all_files)
    /\ s_pc' = "done"
    /\ UNCHANGED <<s_kind, s_all_files, s_index, s_image_data, s_raised,
                   matchVars, extractVars, mapVars, sessionVars, requestVars>>

ScanNext == ScanStart \/ ScanVisit \/ ScanReturn

SpecScan == ScanInit /\ [][ScanNext]_vars

\* the name ends, case aside, in a supported extension that follows a stem
HasSupportedExtension(name) ==
    \E ext \in supported_formats : EndsWith(Lower(name), ext) /\ Len(name) > Len(ext)

\* positions of the listing holding a regular file of a supported
\* extension that decodes
Decodable ==
    {i \in 1..Len(s_all_files) :
        /\ s_all_files[i].is_file
        /\ HasSupportedExtension(s_all_files[i].name)
        /\ s_all_files[i].decodes}

\* C13: the scan never raises; for a missing directory it returns the empty
\* mapping; for a directory it returns exactly one entry per regular file
\* of a supported extension (case aside) that decodes, so a file that fails
\* to decode is left out and the decodable files around it are returned.
C13_ScanTotal ==
    /\ ~s_raised
    /\ s_pc = "done" =>
          /\ s_kind = "missing" => s_image_data = <<>>
          /\ s_kind = "dir" =>
                /\ {s_image_data[k].filename : k \in 1..Len(s_image_data)}
                      = {s_all_files[i].name : i \in Decodable}
                /\ Len(s_image_data) = Cardinality(Decodable)
          /\ s_image_data = process_images(s_kind # "missing", s_all_files)

\* C13 witness: a file that fails to decode is met before a decodable one,
\* and the scan returns the decodable one
C13_Witness ==
    /\ s_pc = "done"
    /\ s_kind = "dir"
    /\ \E i, j \in 1..Len(s_all_files) :
          /\ i < j
          /\ s_all_files[i].is_file
          /\ HasSupportedExtension(s_all_files[i].name)
          /\ ~s_all_files[i].decodes
          /\ j \in Decodable
          /\ \E k \in 1..Len(s_image_data) : s_image_data[k].filename = s_all_files[j].name

\* ------------------------------------------------------------------------
\* Specification of the service: the session endpoints of main.py, each
\* request handled in one step, over the core above
\* ------------------------------------------------------------------------
\* what the uploaded workbooks hold, by filename
Workbook(filename) ==
    IF filename = "plants.xlsx"
    THEN << <<StrCell("Ref"), StrCell("Y"), StrCell("X"), StrCell("Altitude")>>,
            <<StrCell("plant_01"), NumCell(10), NumCell(20), NumCell(300)>>,
            <<StrCell("scan"), NumCell(11), NumCell(21), NaN>> >>
    ELSE << <<StrCell("Ref"), StrCell("Y"), StrCell("X"), StrCell("Altitude")>> >>

ExcelUploads == {"plants.xlsx", "short.xls", "notes.csv"}

ImageUploads == {"plant_01.jpg", "notes.txt"}

ZipUploads ==
    { [filename |-> "photos.zip", valid |-> TRUE,
       members |-> <<"photos/", "photos/scan.tif", "__MACOSX/._scan.tif",
                     ".hidden.png", "readme.txt">>],
      [filename |-> "docs.zip", valid |-> TRUE, members |-> <<"readme.txt">>],
      [filename |-> "corrupt.zip", valid |-> FALSE, members |-> <<>>],
      [filename |-> "photos.rar", valid |-> FALSE, members |-> <<>>] }

\* the directory entry of a stored file, by name
FileEntry(name) ==
    [name     |-> name,
     is_file  |-> TRUE,
     decodes  |-> TRUE,
     bytes    |-> IF name = "plant_01.jpg" THEN 1258291
                  ELSE IF name = "scan.tif" THEN 131072 ELSE 2048]

StartRows == {0, 2}

RefColumns == {"ref", "Photo"}

\* the orders os.listdir may give the names of a directory
Listings(files) ==
    {f \in [1..Cardinality(files) -> files] :
        \A i, j \in 1..Cardinality(files) : i # j => f[i] # f[j]}

\* the names of a directory that process_data copies to the static directory
StaticCopies(files) == {f \in files : EndsWithAny(Lower(f), StaticCopySuffixes)}

\* the image files of a directory, by the formats the scan supports
ImageFiles(files) == {f \in files : Lower(Suffix(f)) \in supported_formats}

Init ==
    /\ SessionIdle
    /\ ScanIdle
    /\ RequestIdle
    /\ MatchIdle
    /\ ExtractIdle
    /\ MapIdle

\* POST /upload/excel
upload_excel(filename, session_id) ==
    IF ~(\E sfx \in ExcelSuffixes : EndsWith(filename, sfx))
    THEN \* HTTP 400
         UNCHANGED sessionVars
    ELSE /\ fs_excel' = [fs_excel EXCEPT ![session_id] = @ \cup {filename}]
         /\ processing_status' =
                [processing_status EXCEPT ![session_id] = NewStatus(session_id, filename)]
         /\ UNCHANGED <<fs_images, fs_static, fs_processed, core_call>>

\* POST /upload/images
upload_images(files, session_id) ==
    IF processing_status[session_id] = NoEntry
    THEN \* HTTP 400
         UNCHANGED sessionVars
    ELSE LET uploaded_files == SavedImages(files, 1)
         IN  /\ fs_images' = [fs_images EXCEPT ![session_id] =
                                 [exists |-> TRUE, files |-> @.files \cup Range(uploaded_files)]]
             /\ processing_status' = [processing_status EXCEPT ![session_id] =
                                         MarkImages(@, uploaded_files)]
             /\ UNCHANGED <<fs_excel, fs_static, fs_processed, core_call>>

\* POST /upload/images-zip
upload_images_zip(zip, session_id) ==
    IF processing_status[session_id] = NoEntry \/ ~EndsWith(zip.filename, ".zip")
    THEN \* HTTP 400
         UNCHANGED sessionVars
    ELSE IF ~zip.valid
    THEN \* BadZipFile: the archive stays where it was saved
         /\ fs_images' = [fs_images EXCEPT ![session_id] =
                             [exists |-> TRUE, files |-> @.files \cup {zip.filename}]]
         /\ UNCHANGED <<processing_status, fs_excel, fs_static, fs_processed, core_call>>
    ELSE LET extracted_files == ExtractedImages(zip.members, 1)
             on_disk == (fs_images[session_id].files \cup Range(extracted_files))
                            \ {zip.filename}
             actual_files == SelectSeq(extracted_files, LAMBDA f : f \in on_disk)
         IN  /\ fs_images' = [fs_images EXCEPT ![session_id] =
                                 [exists |-> TRUE, files |-> on_disk]]
             /\ processing_status' = [processing_status EXCEPT ![session_id] =
                                         MarkImages(@, actual_files)]
             /\ UNCHANGED <<fs_excel, fs_static, fs_processed, core_call>>

\* POST /process/data
process_data(session_id, start_row, start_col, ref_photo_column) ==
    LET status == processing_status[session_id]
    IN
    IF status = NoEntry
    THEN \* HTTP 404
         UNCHANGED sessionVars
    ELSE IF ~status.excel_uploaded \/ ~status.images_uploaded
    THEN \* HTTP 400
         UNCHANGED sessionVars
    ELSE \E all_files \in Listings(fs_images[session_id].files) :
         \E table \in {process_excel(Workbook(status.excel_filename), start_row, start_col)} :
         \E image_data \in {process_images(fs_images[session_id].exists,
                                           [i \in 1..Len(all_files) |->
                                               FileEntry(all_files[i])])} :
         \E database \in {IF table.ok
                          THEN map_data([columns |-> table.columns, rows |-> table.rows],
                                        image_data, ref_photo_column, session_id)
                          ELSE NoResult} :
             /\ core_call' = [called       |-> TRUE,
                              excel_stored |-> status.excel_filename \in fs_excel[session_id],
                              image_files  |-> Cardinality(ImageFiles(
                                                   fs_images[session_id].files))]
             /\ IF ~database.ok
                THEN \* HTTP 500
                     UNCHANGED <<processing_status, fs_static, fs_processed>>
                ELSE /\ fs_processed' = [fs_processed EXCEPT ![session_id] =
                            [exists |-> TRUE,
                             plants |-> Len(database.plants),
                             paths  |-> {database.plants[k].imagePath :
                                            k \in 1..Len(database.plants)}]]
                     /\ IF ~fs_images[session_id].exists
                        THEN \* os.listdir of a missing directory raises
                             /\ fs_static' = [fs_static EXCEPT ![session_id].exists = TRUE]
                             /\ UNCHANGED processing_status
                        ELSE /\ fs_static' = [fs_static EXCEPT ![session_id] =
                                    [exists |-> TRUE,
                                     files  |-> @.files \cup
                                                StaticCopies(fs_images[session_id].files)]]
                             /\ processing_status' = [processing_status EXCEPT
                                    ![session_id].processing_complete = TRUE,
                                    ![session_id].output_path =
                                        "processed_data/" \o session_id
                                            \o "_plant_database.json",
                                    ![session_id].mapped_plants = Len(database.plants)]
             /\ UNCHANGED <<fs_excel, fs_images>>

\* DELETE /session/{session_id}
cleanup_session(session_id) ==
    IF processing_status[session_id] = NoEntry
    THEN \* HTTP 404
         UNCHANGED sessionVars
    ELSE /\ fs_excel' = [fs_excel EXCEPT ![session_id] = {}]
         /\ fs_images' = [fs_images EXCEPT ![session_id] = NoDir]
         /\ fs_static' = [fs_static EXCEPT ![session_id] = NoDir]
         /\ fs_processed' = [fs_processed EXCEPT ![session_id] = NoOutput]
         /\ processing_status' = [processing_status EXCEPT ![session_id] = NoEntry]
         /\ UNCHANGED core_call

UploadExcel ==
    /\ \E filename \in ExcelUploads, s \in SessionIds : upload_excel(filename, s)
    /\ UNCHANGED <<matchVars, extractVars, mapVars, scanVars, requestVars>>

UploadImages ==
    /\ \E files \in InjSeqs(ImageUploads, MaxUpload), s \in SessionIds : upload_images(files, s)
    /\ UNCHANGED <<matchVars, extractVars, mapVars, scanVars, requestVars>>

UploadImagesZip ==
    /\ \E zip \in ZipUploads, s \in SessionIds : upload_images_zip(zip, s)
    /\ UNCHANGED <<matchVars, extractVars, mapVars, scanVars, requestVars>>

ProcessData ==
    /\ \E s \in SessionIds, start_row \in StartRows, ref_photo_column \in RefColumns :
          process_data(s, start_row, 0, ref_photo_column)
    /\ UNCHANGED <<matchVars, extractVars, mapVars, scanVars, requestVars>>

CleanupSession ==
    /\ \E s \in SessionIds : cleanup_session(s)
    /\ UNCHANGED <<matchVars, extractVars, mapVars, scanVars, requestVars>>

Next == UploadExcel \/ UploadImages \/ UploadImagesZip \/ ProcessData \/ CleanupSession

Spec == Init /\ [][Next]_vars

\* C10: process_data invokes the core only while the session's table is
\* stored and at least one image file is stored for it (so an upload that
\* stored no image does not enable processing); and a status entry, also
\* after the table is uploaded again, does not deny what is stored: it says
\* no images are uploaded only when none are stored.
C10_CoreGuarded ==
    /\ core_call.called => (core_call.excel_stored /\ core_call.image_files >= 1)
    /\ \A s \in SessionIds :
          processing_status[s] # NoEntry =>
              /\ processing_status[s].excel_uploaded
              /\ processing_status[s].excel_filename \in fs_excel[s]
              /\ ~processing_status[s].images_uploaded
                    => ImageFiles(fs_images[s].files) = {}

\* ------------------------------------------------------------------------
\* Specification of the service with one upload request in flight.  The
\* handlers are coroutines of one event loop: a handler runs alone between
\* two awaits.  upload_images and upload_images_zip await aiofiles (open,
\* read, write) and so give way there; cleanup_session and process_data hold
\* no await and run in one step, as does upload_excel up to its one update
\* ------------------------------------------------------------------------
RECURSIVE NextImage(_, _)
\* upload_images: the first position from i on that passes the test of line
\* 97, Len(files) + 1 when the loop ends without another one
NextImage(files, i) ==
    IF i > Len(files) THEN i
    ELSE IF EndsWithAny(Lower(files[i]), UploadImageSuffixes) THEN i
    ELSE NextImage(files, i + 1)

\* upload_images from the top of the loop at position i with uploaded_files
\* as given: up to the next await (the open of line 105), or through the
\* status update of lines 123-126 to the response, where its locals end
images_continue(session_id, files, i, uploaded_files) ==
    LET j == NextImage(files, i)
    IN  IF j <= Len(files)
        THEN /\ q_files' = files
             /\ q_index' = j
             /\ q_uploaded' = uploaded_files
             /\ q_pc' = "open"
             /\ q_outcome' = ""
             /\ UNCHANGED processing_status
        ELSE /\ q_files' = <<>>
             /\ q_index' = 1
             /\ q_uploaded' = <<>>
             /\ q_pc' = "done"
             /\ IF processing_status[session_id] = NoEntry
                THEN \* KeyError at line 124: HTTP 500
                     /\ q_outcome' = "500"
                     /\ UNCHANGED processing_status
                ELSE /\ q_outcome' = "200"
                     /\ processing_status' = [processing_status EXCEPT ![session_id] =
                                                 MarkImages(@, uploaded_files)]

\* the response leaves the handler: its locals end
request_answered(status_code) ==
    /\ q_pc' = "done"
    /\ q_outcome' = status_code
    /\ q_files' = <<>>
    /\ q_zip' = NoZip
    /\ q_index' = 1
    /\ q_uploaded' = <<>>

\* upload_images, lines 85-105: the session check, makedirs, and the loop up
\* to the first open
images_begin(files, session_id) ==
    /\ q_kind' = "images"
    /\ q_session' = session_id
    /\ IF processing_status[session_id] = NoEntry
       THEN /\ request_answered("400")
            /\ UNCHANGED sessionVars
       ELSE /\ fs_images' = [fs_images EXCEPT ![session_id].exists = TRUE]
            /\ images_continue(session_id, files, 1, <<>>)
            /\ q_zip' = NoZip
            /\ UNCHANGED <<fs_excel, fs_static, fs_processed, core_call>>

\* upload_images_zip, lines 140-152: the checks and makedirs, up to the open
zip_begin(zip, session_id) ==
    /\ q_kind' = "zip"
    /\ q_session' = session_id
    /\ IF processing_status[session_id] = NoEntry \/ ~EndsWith(zip.filename, ".zip")
       THEN /\ request_answered("400")
            /\ UNCHANGED sessionVars
       ELSE /\ fs_images' = [fs_images EXCEPT ![session_id].exists = TRUE]
            /\ q_zip' = zip
            /\ q_files' = <<>>
            /\ q_index' = 1
            /\ q_uploaded' = <<>>
            /\ q_pc' = "open"
            /\ q_outcome' = ""
            /\ UNCHANGED <<processing_status, fs_excel, fs_static, fs_processed, core_call>>

\* upload_images at the aiofiles.open of line 105: the file is created in
\* the session directory, or the open raises when the directory is gone,
\* which the except clause of lines 117-119 answers with the next file
images_open ==
    /\ UNCHANGED q_zip
    /\ IF fs_images[q_session].exists
       THEN /\ fs_images' = [fs_images EXCEPT ![q_session].files = @ \cup {q_files[q_index]}]
            /\ q_pc' = "write"
            /\ UNCHANGED <<q_files, q_index, q_uploaded, q_outcome, processing_status>>
       ELSE /\ UNCHANGED fs_images
            /\ images_continue(q_session, q_files, q_index + 1, q_uploaded)

\* upload_images_zip at the aiofiles.open of line 152: the archive is
\* created in the session directory, or the open raises: HTTP 500
zip_open ==
    IF fs_images[q_session].exists
    THEN /\ fs_images' = [fs_images EXCEPT ![q_session].files = @ \cup {q_zip.filename}]
         /\ q_pc' = "write"
         /\ UNCHANGED <<q_files, q_zip, q_index, q_uploaded, q_outcome, processing_status>>
    ELSE /\ request_answered("500")
         /\ UNCHANGED <<fs_images, processing_status>>

\* upload_images from the end of the write of line 107: the check of line
\* 110 and the rest of the handler up to its next await
images_written ==
    LET saved == /\ fs_images[q_session].exists
                 /\ q_files[q_index] \in fs_images[q_session].files
    IN  /\ UNCHANGED <<fs_images, q_zip>>
        /\ images_continue(q_session, q_files, q_index + 1,
                           IF saved THEN Append(q_uploaded, q_files[q_index])
                           ELSE q_uploaded)

\* upload_images_zip from the end of the write of line 154 to the response
zip_written ==
    IF ~(fs_images[q_session].exists /\ q_zip.filename \in fs_images[q_session].files)
    THEN \* os.path.getsize of line 157 raises: HTTP 500
         /\ request_answered("500")
         /\ UNCHANGED <<fs_images, processing_status>>
    ELSE IF ~q_zip.valid
    THEN \* BadZipFile: HTTP 400
         /\ request_answered("400")
         /\ UNCHANGED <<fs_images, processing_status>>
    ELSE LET extracted_files == ExtractedImages(q_zip.members, 1)
             on_disk == (fs_images[q_session].files \cup Range(extracted_files))
                            \ {q_zip.filename}
             actual_files == SelectSeq(extracted_files, LAMBDA f : f \in on_disk)
         IN  /\ fs_images' = [fs_images EXCEPT ![q_session].files = on_disk]
             /\ IF processing_status[q_session] = NoEntry
                THEN \* KeyError at line 236: HTTP 500
                     /\ request_answered("500")
                     /\ UNCHANGED processing_status
                ELSE /\ request_answered("200")
                     /\ processing_status' = [processing_status EXCEPT ![q_session] =
                                                 MarkImages(@, actual_files)]

\* a request for POST /upload/images or POST /upload/images-zip arrives
RequestBegin ==
    /\ q_pc \in {"idle", "done"}
    /\ \E s \in SessionIds :
          \/ \E files \in InjSeqs(ImageUploads, MaxUpload) : images_begin(files, s)
          \/ \E zip \in ZipUploads : zip_begin(zip, s)
    /\ UNCHANGED <<matchVars, extractVars, mapVars, scanVars>>

\* the request in flight opens its file
RequestOpen ==
    /\ q_pc = "open"
    /\ IF q_kind = "images" THEN images_open ELSE zip_open
    /\ UNCHANGED <<q_kind, q_session, fs_excel, fs_static, fs_processed, core_call,
                   matchVars, extractVars, mapVars, scanVars>>

\* the request in flight has written its file and runs on
RequestWrite ==
    /\ q_pc = "write"
    /\ IF q_kind = "images" THEN images_written ELSE zip_written
    /\ UNCHANGED <<q_kind, q_session, fs_excel, fs_static, fs_processed, core_call,
                   matchVars, extractVars, mapVars, scanVars>>

\* the workbook and the parameters of the requests of this specification
ConcWorkbooks == {"plants.xlsx"}

ConcUploadExcel ==
    /\ \E filename \in ConcWorkbooks, s \in SessionIds : upload_excel(filename, s)
    /\ UNCHANGED <<matchVars, extractVars, mapVars, scanVars, requestVars>>

ConcProcessData ==
    /\ \E s \in SessionIds : process_data(s, 0, 0, "ref")
    /\ UNCHANGED <<matchVars, extractVars, mapVars, scanVars, requestVars>>

ConcCleanupSession ==
    /\ \E s \in SessionIds : cleanup_session(s)
    /\ UNCHANGED <<matchVars, extractVars, mapVars, scanVars, requestVars>>

ConcNext ==
    \/ ConcUploadExcel
    \/ RequestBegin
    \/ RequestOpen
    \/ RequestWrite
    \/ ConcProcessData
    \/ ConcCleanupSession

SpecConc == Init /\ [][ConcNext]_vars

\* C16: whatever runs between its awaits, an upload request that passed the
\* session check is not answered with a server error (it completes its
\* update of the status entry), and no file of a session is on disk while
\* the session has no status entry.
C16_RequestCompletes ==
    /\ q_outcome # "500"
    /\ \A s \in SessionIds :
          processing_status[s] = NoEntry =>
              /\ fs_excel[s] = {}
              /\ fs_images[s].files = {}
              /\ fs_static[s].files = {}
              /\ ~fs_processed[s].exists

\* C15: once process_data has completed for a session, the imagePath of
\* every record written for it names a file of the session's static
\* directory (the extensions copied cover those the scan accepts).
C15_MatchedImagesServed ==
    \A s \in SessionIds :
        (processing_status[s] # NoEntry /\ processing_status[s].processing_complete) =>
            \A path \in fs_processed[s].paths :
                \E f \in fs_static[s].files : path = s \o "/" \o f

====
